---- MODULE Spec2Model ----
(***************************************************************************)
(* Model of src/telegram/monitor.ts: monitorTelegramProvider, the Telegram *)
(* polling/webhook supervisor, with its update-offset checkpoint, the      *)
(* token-change catch-up, the persistUpdateId callback and the poll        *)
(* restart loop.                                                           *)
(*                                                                         *)
(* One supervisor invocation ("run") is a process position pc; every       *)
(* action is the code between two awaits of the async function.  The       *)
(* offset store file survives from one run to the next.                    *)
(***************************************************************************)
EXTENDS Integers, Sequences, FiniteSets, TLC

\* ---------------------------------------------------------------- bounds
MaxId == 2          \* update ids are 1..MaxId
MaxRuns == 2        \* invocations of monitorTelegramProvider (process starts)
MaxDeliver == 2     \* persistUpdateId calls per run
MaxProbeLen == 2    \* entries in the catch-up getUpdates result
MaxFailures == 2    \* recoverable worker failures per run
MaxAttempt == 12    \* attempt numbers computeBackoff is evaluated at

\* ------------------------------------------------------- program constants
ConflictCode == 409
\* TELEGRAM_POLL_RESTART_POLICY: initialMs, maxMs, factor (1.8, in tenths),
\* jitter (0.25, in percent)
InitialMs == 2000
MaxMs == 30000
FactorTenths == 18
JitterPercent == 25

\* ------------------------------------------------------------ value model
\* A nullable value (T | null | undefined) is <<>> or <<v>>.
Null == <<>>
Some(v) == <<v>>
Val(m) == m[1]

Ids == 1..MaxId
Tokens == {"A", "B"}
NoToken == ""
NoHash == "absent"

\* hashTelegramToken: a stable digest of the token, distinct per token.
hashTelegramToken(t) == IF t = "A" THEN "hA" ELSE "hB"

Hashes == {hashTelegramToken(t) : t \in Tokens}

\* The state a read returns and a write is given: {lastUpdateId, tokenHash},
\* tokenHash absent for a version-1 record.
StoreRecord(id, h) == [lastUpdateId |-> id, tokenHash |-> h]

\* The file a version-1 writer left: {version: 1, lastUpdateId}, no tokenHash.
LegacyFile(id) == [version |-> 1, lastUpdateId |-> id]

\* writeTelegramUpdateOffset({updateId, tokenHash}): the file it leaves.
writeTelegramUpdateOffset(updateId, h) ==
    [version |-> 2, lastUpdateId |-> updateId, tokenHash |-> h]

\* readTelegramUpdateOffsetState(): no file gives null; a file gives its
\* lastUpdateId and its tokenHash, absent when the file has none.
readTelegramUpdateOffsetState(file) ==
    IF file = Null THEN Null
    ELSE LET f == Val(file)
         IN Some(StoreRecord(f.lastUpdateId,
                             IF "tokenHash" \in DOMAIN f THEN f.tokenHash ELSE NoHash))

RECURSIVE SeqsUpTo(_, _)
SeqsUpTo(S, n) ==
    IF n = 0 THEN {<<>>}
    ELSE LET shorter == SeqsUpTo(S, n - 1)
         IN shorter \cup {Append(s, x) : s \in {t \in shorter : Len(t) = n - 1}, x \in S}

\* An entry of json.result: {update_id?: number}; update_id may be missing.
ProbeEntries == {Some(i) : i \in Ids} \cup {Null}
ProbeResults == SeqsUpTo(ProbeEntries, MaxProbeLen)

\* The catch-up response: res.ok, whether res.json() parses, json.ok, json.result.
Responses ==
    {r \in [ok : BOOLEAN, parses : BOOLEAN, jsonOk : BOOLEAN, result : ProbeResults] :
        ~r.parses => (~r.jsonOk /\ r.result = <<>>)}

\* What a rejected promise carries.  A worker error has the fields the
\* classifiers look at: error_code, whether method/description/message mention
\* getUpdates, the transport's own verdict, and whether the rendered message
\* holds one of NETWORK_ERROR_SNIPPETS.  Its origin (the getUpdates transport
\* or the downstream update handler) is a field no classifier reads; a
\* handler's error is taken to be neither a getUpdates 409 nor an error the
\* transport's classifier knows.
ErrorCodes == {ConflictCode, 400}
WorkerErrors ==
    {e \in [kind : {"worker"}, origin : {"transport", "handler"},
            error_code : ErrorCodes, getUpdates : BOOLEAN,
            recoverable : BOOLEAN, snippet : BOOLEAN] :
        e.origin = "handler" =>
            (e.error_code # ConflictCode /\ ~e.getUpdates /\ ~e.recoverable)}
OtherError(k) ==
    [kind |-> k, origin |-> "supervisor", error_code |-> 400, getUpdates |-> FALSE,
     recoverable |-> FALSE, snippet |-> FALSE]

\* ------------------------------------------------------------------ state
VARIABLES
    pc,              \* position of monitorTelegramProvider
    runs,            \* invocations so far
    token,           \* opts.token?.trim() || account.token
    useWebhook,      \* opts.useWebhook
    aborted,         \* opts.abortSignal.aborted
    store,           \* the offset file on disk: Null or Some(file)
    storedState,     \* result of readTelegramUpdateOffsetState
    lastUpdateId,    \* the closure variable lastUpdateId (nullable)
    bot,             \* Null before createTelegramBot, then Some(updateOffset.lastUpdateId)
    res,             \* the catch-up response whose body is being parsed, or Null
    pending,         \* writeTelegramUpdateOffset calls of persistUpdateId in flight
    delivered,       \* update ids passed to onUpdateId in this run, in call order
    probeCalls,      \* catch-up getUpdates requests of this run
    startupWrites,   \* writes issued by the startup backfill, in order
    persistErrors,   \* "failed to persist update offset" log lines of this run
    runners,         \* one entry per run(bot): "running" | "stopping" | "settled"
    restartAttempts, \* the loop variable restartAttempts
    caught,          \* the error caught from runner.task(), while it is handled
    err,             \* what the invocation threw: Null or Some(error)
    webhook,         \* the webhook listener: "none" | "listening" | "stopping" | "ended" | "failed"
    backoffAttempt   \* the attempt number computeBackoff was called with, 0 when not sleeping

vars == <<pc, runs, token, useWebhook, aborted, store, storedState, lastUpdateId,
          bot, res, pending, delivered, probeCalls, startupWrites, persistErrors,
          runners, restartAttempts, caught, err, webhook, backoffAttempt>>

tokenHash == hashTelegramToken(token)

\* Per-run state as it is when monitorTelegramProvider is entered.
Init ==
    /\ pc = "idle"
    /\ runs = 0
    /\ token = NoToken
    /\ useWebhook = FALSE
    /\ aborted = FALSE
    /\ store \in {Null} \cup {Some(LegacyFile(i)) : i \in Ids}
    /\ storedState = Null
    /\ lastUpdateId = Null
    /\ bot = Null
    /\ res = Null
    /\ pending = {}
    /\ delivered = <<>>
    /\ probeCalls = 0
    /\ startupWrites = <<>>
    /\ persistErrors = 0
    /\ runners = <<>>
    /\ restartAttempts = 0
    /\ caught = Null
    /\ err = Null
    /\ webhook = "none"
    /\ backoffAttempt = 0

\* ------------------------------------------------------- pure helpers
\* ids = (json.result ?? []).map(u => u.update_id).filter(isFinite number)
UpdateIds(result) == SelectSeq(result, LAMBDA u : u # Null)

\* Variant of MathMax: the last id of the list is taken for the largest.
MathMax_Last(ids) == Val(ids[Len(ids)])

\* Math.max(...ids) over a non-empty list of entries
RECURSIVE MathMax(_)
MathMax(ids) ==
    IF Len(ids) = 1 THEN Val(Head(ids))
    ELSE LET m == MathMax(Tail(ids))
         IN IF Val(Head(ids)) > m THEN Val(Head(ids)) ELSE m

\* const maxId = ids.length ? Math.max(...ids) : null, then lastUpdateId
CatchUpOffset(result) ==
    LET ids == UpdateIds(result)
    IN IF Len(ids) > 0 THEN Some(MathMax(ids)) ELSE Null

\* Variant of TokenChanged: any stored tokenHash counts as a change.
TokenChanged_AnyHash(st, h) ==
    st # Null /\ Val(st).tokenHash # NoHash

\* storedState?.tokenHash && storedState.tokenHash !== tokenHash
TokenChanged(st, h) ==
    st # Null /\ Val(st).tokenHash # NoHash /\ Val(st).tokenHash # h

\* storedState?.tokenHash == null && storedState?.lastUpdateId != null
NeedsBackfill(st) ==
    st # Null /\ Val(st).tokenHash = NoHash

\* isGetUpdatesConflict(err)
isGetUpdatesConflict(e) == e.error_code = ConflictCode /\ e.getUpdates

\* isRecoverableTelegramNetworkError(err, {context: "polling"})
isRecoverableTelegramNetworkError(e) == e.recoverable

\* isNetworkRelatedError(err)
isNetworkRelatedError(e) == e.snippet

\* Variant of IsFatal: the message snippets are not consulted.
IsFatal_NoSnippet(e) ==
    /\ ~isGetUpdatesConflict(e)
    /\ ~isRecoverableTelegramNetworkError(e)

\* Variant of IsFatal: the getUpdates conflict is not consulted.
IsFatal_NoConflict(e) ==
    /\ ~isRecoverableTelegramNetworkError(e)
    /\ ~isNetworkRelatedError(e)

\* !isConflict && !isRecoverable && !isNetworkError
IsFatal(e) ==
    /\ ~isGetUpdatesConflict(e)
    /\ ~isRecoverableTelegramNetworkError(e)
    /\ ~isNetworkRelatedError(e)

\* The jitter drawn by one computeBackoff call: its two extremes and none.
Jitters == {-1, 0, 1}

\* initialMs * factor^(attempt - 1), not followed beyond maxMs
RECURSIVE BackoffBase(_)
BackoffBase(attempt) ==
    IF attempt <= 1 THEN InitialMs
    ELSE LET p == BackoffBase(attempt - 1)
         IN IF p >= MaxMs THEN MaxMs ELSE (p * FactorTenths) \div 10

\* computeBackoff(TELEGRAM_POLL_RESTART_POLICY, attempt): the base delay
\* clamped to maxMs, perturbed by the jitter fraction, clamped to maxMs.
computeBackoff(attempt, j) ==
    LET base == IF BackoffBase(attempt) > MaxMs THEN MaxMs ELSE BackoffBase(attempt)
        d == base + (base * JitterPercent * j) \div 100
    IN IF d > MaxMs THEN MaxMs ELSE d

\* Variant of Settle: the loop goes on without the task having settled.
Settle_Skip(rs) == rs

\* The runner whose task() has settled.
Settle(rs) == [rs EXCEPT ![Len(rs)] = "settled"]

\* Variant of StopRunner: the abort listener does not stop the runner.
StopRunner_Noop(rs) == rs

\* runner.stop() from the abort listener.
StopRunner(rs) == [rs EXCEPT ![Len(rs)] = "stopping"]

\* ------------------------------------------------------- startup
\* while (!opts.abortSignal?.aborted) { const runner = run(bot, ...); ... await runner.task()
EnterLoop ==
    IF aborted
    THEN pc' = "done" /\ runners' = runners
    ELSE pc' = "running" /\ runners' = Append(runners, "running")

\* createTelegramBot({... updateOffset: {lastUpdateId, onUpdateId}}), then the
\* webhook listener or the poll loop.
CreateBotAndStart(lu) ==
    /\ bot' = Some(lu)
    /\ IF useWebhook
       THEN /\ pc' = "webhook"
            /\ webhook' = IF aborted THEN "stopping" ELSE "listening"
            /\ runners' = runners
       ELSE /\ EnterLoop
            /\ webhook' = webhook

\* monitorTelegramProvider is called: a fresh process or a fresh invocation.
\* Without a token it throws at once; otherwise it awaits the stored state.
Start ==
    /\ pc \in {"idle", "done", "threw"}
    /\ runs < MaxRuns
    /\ runs' = runs + 1
    /\ \E t \in Tokens \cup {NoToken} :
         /\ token' = t
         /\ IF t = NoToken
            THEN pc' = "threw" /\ err' = Some(OtherError("config"))
            ELSE pc' = "reading" /\ err' = Null
    /\ useWebhook' \in BOOLEAN
    /\ aborted' = FALSE
    /\ storedState' = Null
    /\ lastUpdateId' = Null
    /\ bot' = Null
    /\ res' = Null
    /\ pending' = {}
    /\ delivered' = <<>>
    /\ probeCalls' = 0
    /\ startupWrites' = <<>>
    /\ persistErrors' = 0
    /\ runners' = <<>>
    /\ restartAttempts' = 0
    /\ caught' = Null
    /\ webhook' = "none"
    /\ backoffAttempt' = 0
    /\ UNCHANGED store

\* Variant of ReadDone: the stored id is not taken over, lastUpdateId stays null.
ReadDone_DropsId ==
    /\ pc = "reading"
    /\ storedState' = readTelegramUpdateOffsetState(store)
    /\ lastUpdateId' = Null
    /\ IF TokenChanged(storedState', tokenHash)
       THEN /\ pc' = "probing"
            /\ probeCalls' = probeCalls + 1
            /\ UNCHANGED <<bot, runners, startupWrites, webhook>>
       ELSE IF NeedsBackfill(storedState')
       THEN /\ pc' = "backfill"
            /\ startupWrites' =
                 Append(startupWrites,
                        StoreRecord(Val(storedState').lastUpdateId, tokenHash))
            /\ UNCHANGED <<bot, runners, probeCalls, webhook>>
       ELSE /\ CreateBotAndStart(lastUpdateId')
            /\ UNCHANGED <<probeCalls, startupWrites>>
    /\ UNCHANGED <<runs, token, useWebhook, aborted, store, res, pending, delivered,
                   persistErrors, restartAttempts, caught, err, backoffAttempt>>

\* readTelegramUpdateOffsetState resolves; the code runs on to its next await:
\* the catch-up request, the backfill write, or the selected mode.
ReadDone ==
    /\ pc = "reading"
    /\ storedState' = readTelegramUpdateOffsetState(store)
    /\ lastUpdateId' = IF storedState' = Null THEN Null
                       ELSE Some(Val(storedState').lastUpdateId)
    /\ IF TokenChanged(storedState', tokenHash)
       THEN /\ pc' = "probing"
            /\ probeCalls' = probeCalls + 1
            /\ UNCHANGED <<bot, runners, startupWrites, webhook>>
       ELSE IF NeedsBackfill(storedState')
       THEN /\ pc' = "backfill"
            /\ startupWrites' =
                 Append(startupWrites,
                        StoreRecord(Val(storedState').lastUpdateId, tokenHash))
            /\ UNCHANGED <<bot, runners, probeCalls, webhook>>
       ELSE /\ CreateBotAndStart(lastUpdateId')
            /\ UNCHANGED <<probeCalls, startupWrites>>
    /\ UNCHANGED <<runs, token, useWebhook, aborted, store, res, pending, delivered,
                   persistErrors, restartAttempts, caught, err, backoffAttempt>>

\* readTelegramUpdateOffsetState rejects: nothing catches it.
ReadFails ==
    /\ pc = "reading"
    /\ pc' = "threw"
    /\ err' = Some(OtherError("storage"))
    /\ UNCHANGED <<runs, token, useWebhook, aborted, store, storedState, lastUpdateId,
                   bot, res, pending, delivered, probeCalls, startupWrites,
                   persistErrors, runners, restartAttempts, caught, webhook, backoffAttempt>>

\* fetchWithTimeout resolves with a response; res.json() is awaited next.
ProbeResponds(r) ==
    /\ pc = "probing"
    /\ pc' = "parsing"
    /\ res' = Some(r)
    /\ UNCHANGED <<runs, token, useWebhook, aborted, store, storedState, lastUpdateId,
                   bot, pending, delivered, probeCalls, startupWrites, persistErrors,
                   runners, restartAttempts, caught, err, webhook, backoffAttempt>>

\* Variant of ProbeThrows: the rejection is not caught.
ProbeThrows_Propagates ==
    /\ pc = "probing"
    /\ pc' = "threw"
    /\ err' = Some(OtherError("probe"))
    /\ UNCHANGED <<runs, token, useWebhook, aborted, store, storedState, lastUpdateId,
                   bot, res, pending, delivered, probeCalls, startupWrites,
                   persistErrors, runners, restartAttempts, caught, webhook, backoffAttempt>>

\* fetchWithTimeout rejects (timer abort, network failure): caught, offset reset.
ProbeThrows ==
    /\ pc = "probing"
    /\ lastUpdateId' = Null
    /\ CreateBotAndStart(lastUpdateId')
    /\ UNCHANGED <<runs, token, useWebhook, aborted, store, storedState, res, pending,
                   delivered, probeCalls, startupWrites, persistErrors,
                   restartAttempts, caught, err, backoffAttempt>>

\* res.json() settles: the offset becomes the largest update_id, or null.
ProbeParsed ==
    /\ pc = "parsing"
    /\ LET r == Val(res)
       IN lastUpdateId' =
            IF r.parses /\ r.ok /\ r.jsonOk THEN CatchUpOffset(r.result) ELSE Null
    /\ res' = Null
    /\ CreateBotAndStart(lastUpdateId')
    /\ UNCHANGED <<runs, token, useWebhook, aborted, store, storedState, pending,
                   delivered, probeCalls, startupWrites, persistErrors,
                   restartAttempts, caught, err, backoffAttempt>>

\* What a completed write leaves on disk.
Stored(w) == store' = Some(writeTelegramUpdateOffset(w.lastUpdateId, w.tokenHash))

\* The backfill write resolves.
BackfillDone ==
    /\ pc = "backfill"
    /\ Stored(startupWrites[Len(startupWrites)])
    /\ CreateBotAndStart(lastUpdateId)
    /\ UNCHANGED <<runs, token, useWebhook, aborted, storedState, lastUpdateId, res,
                   pending, delivered, probeCalls, startupWrites, persistErrors,
                   restartAttempts, caught, err, backoffAttempt>>

\* Variant of BackfillFails: the rejection is not swallowed.
BackfillFails_Propagates ==
    /\ pc = "backfill"
    /\ pc' = "threw"
    /\ err' = Some(OtherError("storage"))
    /\ UNCHANGED <<runs, token, useWebhook, aborted, store, storedState, lastUpdateId,
                   bot, res, pending, delivered, probeCalls, startupWrites,
                   persistErrors, runners, restartAttempts, caught, webhook, backoffAttempt>>

\* The backfill write rejects: catch {} swallows it.
BackfillFails ==
    /\ pc = "backfill"
    /\ CreateBotAndStart(lastUpdateId)
    /\ UNCHANGED <<runs, token, useWebhook, aborted, store, storedState, lastUpdateId,
                   res, pending, delivered, probeCalls, startupWrites, persistErrors,
                   restartAttempts, caught, err, backoffAttempt>>

\* ------------------------------------------------------- checkpoint callback
\* Variant of persistUpdateId: the guard lets an id equal to the checkpoint through.
persistUpdateId_LooseGuard(updateId) ==
    /\ pc \in {"running", "webhook"}
    /\ Len(delivered) < MaxDeliver
    /\ delivered' = Append(delivered, updateId)
    /\ IF lastUpdateId # Null /\ updateId < Val(lastUpdateId)
       THEN UNCHANGED <<lastUpdateId, pending>>
       ELSE /\ lastUpdateId' = Some(updateId)
            /\ pending' = pending \cup {StoreRecord(updateId, tokenHash)}
    /\ UNCHANGED <<pc, runs, token, useWebhook, aborted, store, storedState, bot, res,
                   probeCalls, startupWrites, persistErrors, runners,
                   restartAttempts, caught, err, webhook, backoffAttempt>>

\* onUpdateId: persistUpdateId(updateId) up to its await; the write it starts
\* completes on its own (WriteDone, WriteFails), other calls may run meanwhile.
persistUpdateId(updateId) ==
    /\ pc \in {"running", "webhook"}
    /\ Len(delivered) < MaxDeliver
    /\ delivered' = Append(delivered, updateId)
    /\ IF lastUpdateId # Null /\ updateId <= Val(lastUpdateId)
       THEN UNCHANGED <<lastUpdateId, pending>>
       ELSE /\ lastUpdateId' = Some(updateId)
            /\ pending' = pending \cup {StoreRecord(updateId, tokenHash)}
    /\ UNCHANGED <<pc, runs, token, useWebhook, aborted, store, storedState, bot, res,
                   probeCalls, startupWrites, persistErrors, runners,
                   restartAttempts, caught, err, webhook, backoffAttempt>>

\* A write started by persistUpdateId resolves: the file holds its record.
WriteDone(w) ==
    /\ w \in pending
    /\ pending' = pending \ {w}
    /\ Stored(w)
    /\ UNCHANGED <<pc, runs, token, useWebhook, aborted, storedState, lastUpdateId,
                   bot, res, delivered, probeCalls, startupWrites, persistErrors,
                   runners, restartAttempts, caught, err, webhook, backoffAttempt>>

\* A write started by persistUpdateId rejects: logged, nothing else.
WriteFails(w) ==
    /\ w \in pending
    /\ pending' = pending \ {w}
    /\ persistErrors' = persistErrors + 1
    /\ UNCHANGED <<pc, runs, token, useWebhook, aborted, store, storedState,
                   lastUpdateId, bot, res, delivered, probeCalls, startupWrites,
                   runners, restartAttempts, caught, err, webhook, backoffAttempt>>

\* ------------------------------------------------------- cancellation
\* The abort signal fires; the stopOnAbort listener of a running runner stops it.
Abort ==
    /\ pc \notin {"idle", "done", "threw"}
    /\ ~aborted
    /\ aborted' = TRUE
    /\ runners' = IF pc = "running" THEN StopRunner(runners) ELSE runners
    /\ webhook' = IF pc = "webhook" THEN "stopping" ELSE webhook
    /\ UNCHANGED <<pc, runs, token, useWebhook, store, storedState, lastUpdateId, bot,
                   res, pending, delivered, probeCalls, startupWrites, persistErrors,
                   restartAttempts, caught, err, backoffAttempt>>

\* ------------------------------------------------------- webhook mode
\* The webhook branch without its return: the code falls into the poll loop.
WebhookEnds_FallsThrough ==
    /\ pc = "webhook"
    /\ webhook' = "ended"
    /\ EnterLoop
    /\ UNCHANGED <<runs, token, useWebhook, aborted, store, storedState, lastUpdateId,
                   bot, res, pending, delivered, probeCalls, startupWrites,
                   persistErrors, restartAttempts, caught, err, backoffAttempt>>

\* startTelegramWebhook resolves: return.
WebhookEnds ==
    /\ pc = "webhook"
    /\ pc' = "done"
    /\ webhook' = "ended"
    /\ UNCHANGED <<runs, token, useWebhook, aborted, store, storedState, lastUpdateId,
                   bot, res, pending, delivered, probeCalls, startupWrites,
                   persistErrors, runners, restartAttempts, caught, err, backoffAttempt>>

\* startTelegramWebhook rejects: the error leaves monitorTelegramProvider.
WebhookFails ==
    /\ pc = "webhook"
    /\ pc' = "threw"
    /\ webhook' = "failed"
    /\ err' = Some(OtherError("webhook"))
    /\ UNCHANGED <<runs, token, useWebhook, aborted, store, storedState, lastUpdateId,
                   bot, res, pending, delivered, probeCalls, startupWrites,
                   persistErrors, runners, restartAttempts, caught, backoffAttempt>>

\* ------------------------------------------------------- poll loop
\* The try block without its return: a resolved task goes round the loop.
TaskResolves_Restarts ==
    /\ pc = "running"
    /\ Len(runners) <= MaxFailures
    /\ IF aborted
       THEN pc' = "done" /\ runners' = Settle(runners)
       ELSE pc' = "running" /\ runners' = Append(Settle(runners), "running")
    /\ UNCHANGED <<runs, token, useWebhook, aborted, store, storedState, lastUpdateId,
                   bot, res, pending, delivered, probeCalls, startupWrites,
                   persistErrors, restartAttempts, caught, err, webhook, backoffAttempt>>

\* runner.task() resolves: return (finally removes the listener).
TaskResolves ==
    /\ pc = "running"
    /\ runners' = Settle(runners)
    /\ pc' = "done"
    /\ UNCHANGED <<runs, token, useWebhook, aborted, store, storedState, lastUpdateId,
                   bot, res, pending, delivered, probeCalls, startupWrites,
                   persistErrors, restartAttempts, caught, err, webhook, backoffAttempt>>

\* The catch block with the increment after the computeBackoff call.
TaskRejects_StaleAttempt(e) ==
    /\ pc = "running"
    /\ runners' = Settle(runners)
    /\ caught' = Some(e)
    /\ IF aborted \/ IsFatal(e)
       THEN /\ pc' = "threw"
            /\ err' = Some(e)
            /\ UNCHANGED <<restartAttempts, backoffAttempt>>
       ELSE /\ restartAttempts < MaxFailures
            /\ restartAttempts' = restartAttempts + 1
            /\ backoffAttempt' = restartAttempts
            /\ pc' = "backoff"
            /\ UNCHANGED err
    /\ UNCHANGED <<runs, token, useWebhook, aborted, store, storedState, lastUpdateId,
                   bot, res, pending, delivered, probeCalls, startupWrites,
                   persistErrors, webhook>>

\* runner.task() rejects with e: the catch block up to sleepWithAbort.
TaskRejects(e) ==
    /\ pc = "running"
    /\ runners' = Settle(runners)
    /\ caught' = Some(e)
    /\ IF aborted \/ IsFatal(e)
       THEN /\ pc' = "threw"
            /\ err' = Some(e)
            /\ UNCHANGED <<restartAttempts, backoffAttempt>>
       ELSE /\ restartAttempts < MaxFailures
            /\ restartAttempts' = restartAttempts + 1
            /\ backoffAttempt' = restartAttempts'
            /\ pc' = "backoff"
            /\ UNCHANGED err
    /\ UNCHANGED <<runs, token, useWebhook, aborted, store, storedState, lastUpdateId,
                   bot, res, pending, delivered, probeCalls, startupWrites,
                   persistErrors, webhook>>

\* const delayMs = computeBackoff(TELEGRAM_POLL_RESTART_POLICY, restartAttempts):
\* the delays the sleep in progress may have been given, one per jitter drawn.
\* The delay changes no transition, so the state keeps the attempt number.
delayMs == {computeBackoff(backoffAttempt, j) : j \in Jitters}

\* sleepWithAbort(delayMs, opts.abortSignal) rejects as soon as the signal has
\* fired and resolves after the delay otherwise.
SleepRejects == aborted

\* sleepWithAbort resolves after the delay: finally, then the loop condition
\* and the next runner.
SleepDone ==
    /\ pc = "backoff"
    /\ ~SleepRejects
    /\ caught' = Null
    /\ backoffAttempt' = 0
    /\ EnterLoop
    /\ UNCHANGED <<runs, token, useWebhook, aborted, store, storedState, lastUpdateId,
                   bot, res, pending, delivered, probeCalls, startupWrites,
                   persistErrors, restartAttempts, err, webhook>>

\* Variant of SleepAborted: the sleep's rejection is rethrown.
SleepAborted_Throws ==
    /\ pc = "backoff"
    /\ SleepRejects
    /\ caught' = Null
    /\ backoffAttempt' = 0
    /\ pc' = "threw"
    /\ err' = Some(OtherError("aborted"))
    /\ UNCHANGED <<runs, token, useWebhook, aborted, store, storedState, lastUpdateId,
                   bot, res, pending, delivered, probeCalls, startupWrites,
                   persistErrors, runners, restartAttempts, webhook>>

\* sleepWithAbort rejects because the signal fired: aborted, so return.
SleepAborted ==
    /\ pc = "backoff"
    /\ SleepRejects
    /\ aborted
    /\ caught' = Null
    /\ backoffAttempt' = 0
    /\ pc' = "done"
    /\ UNCHANGED <<runs, token, useWebhook, aborted, store, storedState, lastUpdateId,
                   bot, res, pending, delivered, probeCalls, startupWrites,
                   persistErrors, runners, restartAttempts, err, webhook>>

\* ------------------------------------------------------- specification
Next ==
    \/ Start
    \/ ReadDone
    \/ ReadFails
    \/ \E r \in Responses : ProbeResponds(r)
    \/ ProbeThrows
    \/ ProbeParsed
    \/ BackfillDone
    \/ BackfillFails
    \/ \E i \in Ids : persistUpdateId(i)
    \/ \E w \in pending : WriteDone(w)
    \/ \E w \in pending : WriteFails(w)
    \/ Abort
    \/ WebhookEnds
    \/ WebhookFails
    \/ TaskResolves
    \/ \E e \in WorkerErrors : TaskRejects(e)
    \/ SleepDone
    \/ SleepAborted

Spec == Init /\ [][Next]_vars

\* The timer of sleepWithAbort fires, and an abort rejects it at once.
FairSpec == Spec /\ WF_vars(SleepDone) /\ WF_vars(SleepAborted)

\* ------------------------------------------------------- claims
StrictlyIncreasing(q) == \A i \in 1..(Len(q) - 1) : q[i] < q[i + 1]

\* The update ids a getUpdates result carries.
ProbedIds(result) == {Val(result[i]) : i \in {j \in DOMAIN result : result[j] # Null}}

\* The catch-up response being parsed is a success with at least one update id.
ProbeGaveIds ==
    /\ Val(res).parses /\ Val(res).ok /\ Val(res).jsonOk
    /\ ProbedIds(Val(res).result) # {}

\* The stored state read at startup is a version-1 record (no tokenHash).
StoredIsLegacy == storedState # Null /\ Val(storedState).tokenHash = NoHash

\* The caught error is in none of the three retryable classes.
CaughtIsFatal ==
    LET e == Val(caught)
    IN ~(e.error_code = ConflictCode /\ e.getUpdates) /\ ~e.recoverable /\ ~e.snippet

\* C1: a persistUpdateId(id) call starts a store write if and only if id is
\* strictly greater than the in-memory checkpoint (or the checkpoint is null);
\* otherwise it changes neither the checkpoint nor the pending writes nor the
\* store; and when the write starts the checkpoint already equals id.
C1_PersistGuard ==
    [][Len(delivered') = Len(delivered) + 1 =>
        LET id == delivered'[Len(delivered')]
            fresh == lastUpdateId = Null \/ id > Val(lastUpdateId)
        IN /\ (pending' # pending) <=> fresh
           /\ fresh => /\ pending' = pending \cup {StoreRecord(id, tokenHash)}
                       /\ lastUpdateId' = Some(id)
           /\ ~fresh => (lastUpdateId' = lastUpdateId /\ pending' = pending)
           /\ store' = store]_vars

\* C1 witness: a first id started a write and a later id not above it was ignored.
C1_Witness ==
    /\ Len(delivered) = 2
    /\ delivered[2] <= delivered[1]
    /\ lastUpdateId = Some(delivered[1])
    /\ pending = {StoreRecord(delivered[1], tokenHash)}

\* C2: when strictly increasing ids above the seeded checkpoint were delivered
\* and every write has completed without failure, the stored id is the largest
\* id delivered.
C2_PersistedEqualsMax ==
    (/\ delivered # <<>>
     /\ StrictlyIncreasing(delivered)
     /\ bot # Null
     /\ (Val(bot) = Null \/ delivered[1] > Val(Val(bot)))
     /\ pending = {}
     /\ persistErrors = 0)
    => (store # Null /\ Val(store).lastUpdateId = delivered[Len(delivered)])

\* C3: a completed write never replaces a stored record by one with the same
\* tokenHash and a smaller lastUpdateId.
C3_StoredIdMonotonic ==
    [][(store # Null /\ store' # Null
        /\ Val(readTelegramUpdateOffsetState(store')).tokenHash
             = Val(readTelegramUpdateOffsetState(store)).tokenHash)
       => Val(store').lastUpdateId >= Val(store).lastUpdateId]_vars

\* C4: after a token change, when the catch-up request succeeds with at least
\* one update id, the bot is seeded with the largest of those ids, whatever
\* their order and whatever id was stored.
C4_CatchUpToMax ==
    [][(pc = "parsing" /\ pc' # "parsing" /\ ProbeGaveIds) =>
        LET ids == ProbedIds(Val(res).result)
        IN /\ bot' # Null /\ Val(bot') # Null
           /\ Val(Val(bot')) \in ids
           /\ \A i \in ids : i <= Val(Val(bot'))
           /\ lastUpdateId' = Val(bot')]_vars

\* C4 witness: the token changed and the bot was seeded above the stored id.
C4_Witness ==
    /\ probeCalls = 1
    /\ bot = Some(Some(2))
    /\ Val(storedState).lastUpdateId = 1
    /\ pc = "running"

\* C5: after a token change, when the catch-up request yields no update id,
\* a non-ok response, a timeout or an exception, the checkpoint is null,
\* nothing is thrown, the bot is created and the selected mode is entered
\* (the poll loop exits at once if cancellation is already active).
C5_ProbeFailureResets ==
    [][((pc = "probing" /\ pc' \notin {"probing", "parsing"})
        \/ (pc = "parsing" /\ pc' # "parsing" /\ ~ProbeGaveIds)) =>
        /\ lastUpdateId' = Null
        /\ bot' = Some(Null)
        /\ err' = Null
        /\ pc' = IF useWebhook THEN "webhook"
                 ELSE IF aborted THEN "done" ELSE "running"]_vars

\* C5 witness: the token changed and the mode runs with a null checkpoint.
C5_Witness ==
    /\ probeCalls = 1
    /\ bot = Some(Null)
    /\ lastUpdateId = Null
    /\ pc \in {"running", "webhook"}

\* C6: with no stored state, or a stored tokenHash equal to the current one,
\* startup sends no catch-up request, writes nothing to the store, and seeds
\* the bot with the stored lastUpdateId (or null).
C6_NoReconcileWhenSame ==
    (bot # Null /\ (storedState = Null \/ Val(storedState).tokenHash = tokenHash)) =>
        /\ probeCalls = 0
        /\ startupWrites = <<>>
        /\ Val(bot) = IF storedState = Null THEN Null
                      ELSE Some(Val(storedState).lastUpdateId)
        /\ (delivered = <<>> => readTelegramUpdateOffsetState(store) = storedState)

\* C6 witness: a later run with the same token starts from the stored id.
C6_Witness ==
    /\ bot # Null
    /\ storedState # Null
    /\ Val(storedState).tokenHash = tokenHash
    /\ Val(bot) = Some(Val(storedState).lastUpdateId)
    /\ pc = "running"

\* C7: with a stored version-1 record, startup issues exactly one write, of the
\* stored id with the current tokenHash, seeds the bot with that id, sends no
\* catch-up request, and goes on to create the bot whether or not that write
\* succeeds.
C7_LegacyBackfill ==
    /\ (StoredIsLegacy /\ bot # Null) =>
          /\ startupWrites = <<StoreRecord(Val(storedState).lastUpdateId, tokenHash)>>
          /\ Val(bot) = Some(Val(storedState).lastUpdateId)
          /\ probeCalls = 0
    /\ (StoredIsLegacy /\ pc \in {"done", "threw"}) => bot # Null

\* C7 witness: the backfill write failed (the record on disk is still the
\* version-1 record) and the poll worker runs.
C7_Witness ==
    /\ StoredIsLegacy
    /\ store = Some(LegacyFile(Val(storedState).lastUpdateId))
    /\ delivered = <<>>
    /\ pc = "running"

\* C8 as stated: every conflict or recoverable failure handled while
\* cancellation was not active (each one counted by restartAttempts) was
\* followed by a fresh worker.
C8_RecoverableAlwaysRestarts ==
    (pc \in {"done", "threw"} /\ restartAttempts > 0) => Len(runners) > restartAttempts

\* C8 amended: a fatal failure ends the invocation with that error and no
\* further worker; a conflict or recoverable failure handled while
\* cancellation is not active is not thrown and enters the backoff sleep, from
\* which a fresh worker is started unless cancellation fires before the sleep
\* completes, in which case the invocation returns without a restart.
C8_RestartUnlessCancelled ==
    /\ []((caught # Null /\ CaughtIsFatal) =>
            /\ pc = "threw" /\ err = caught
            /\ Len(runners) = restartAttempts + 1
            /\ runners[Len(runners)] = "settled")
    /\ []((caught # Null /\ ~CaughtIsFatal) =>
            \/ pc = "backoff" /\ err = Null
            \/ pc = "threw" /\ aborted)
    /\ [][(pc = "backoff" /\ pc' # "backoff") =>
            IF aborted THEN pc' = "done" /\ runners' = runners
            ELSE pc' = "running" /\ runners' = Append(runners, "running")]_vars
    /\ (pc = "backoff" ~> (aborted \/ Len(runners) > restartAttempts))

\* C8 witness: a recoverable failure was followed by a fresh, running worker.
C8_Witness ==
    /\ pc = "running"
    /\ restartAttempts >= 1
    /\ Len(runners) = restartAttempts + 1
    /\ ~aborted

\* C9: every runner but the newest has settled: at most one poll worker is
\* active, and a new one is started only after the previous one settled.
C9_OneWorker ==
    \A i \in 1..(Len(runners) - 1) : runners[i] = "settled"

\* C9 witness: a third worker runs after two failures and restarts.
C9_Witness ==
    runners = <<"settled", "settled", "running">>

\* C10: once cancellation has fired during the backoff sleep, the next step of
\* the supervisor returns without an error and without starting a worker, and
\* that step is always taken.
C10_CancelDuringBackoff ==
    /\ [][(pc = "backoff" /\ aborted /\ pc' # "backoff") =>
            (pc' = "done" /\ err' = Null /\ runners' = runners)]_vars
    /\ ((pc = "backoff" /\ aborted) ~> pc = "done")

\* C10 witness: the invocation returned from the backoff sleep after an abort.
C10_Witness ==
    /\ pc = "done"
    /\ aborted
    /\ err = Null
    /\ restartAttempts > 0
    /\ Len(runners) = restartAttempts

\* C11: when cancellation is requested while a poll worker runs, that worker
\* is told to stop; the invocation ends only with every worker settled; and no
\* worker is started once cancellation has been requested.
C11_CancelWhileRunning ==
    /\ []((pc = "running" /\ aborted) => runners[Len(runners)] = "stopping")
    /\ []((pc \in {"done", "threw"}) => \A i \in DOMAIN runners : runners[i] = "settled")
    /\ [][aborted => Len(runners') <= Len(runners)]_vars

\* C11 witness: the invocation returned after an abort that reached a running
\* worker (the last worker was started, so the abort came after its start).
C11_Witness ==
    /\ pc = "done"
    /\ aborted
    /\ err = Null
    /\ Len(runners) = restartAttempts + 1

\* C12: restartAttempts is back at 0 after every update delivered by a running
\* worker, and grows by one with every failure that enters the backoff sleep.
C12_AttemptsResetOnDelivery ==
    /\ [][(pc = "running" /\ Len(delivered') = Len(delivered) + 1)
            => restartAttempts' = 0]_vars
    /\ [][(pc = "running" /\ pc' = "backoff")
            => restartAttempts' = restartAttempts + 1]_vars

\* The thrown error is in none of the three retryable classes.
ThrownIsFatal ==
    LET e == Val(err)
    IN ~(e.error_code = ConflictCode /\ e.getUpdates) /\ ~e.recoverable /\ ~e.snippet

C14_StorageNeverFatal ==
    pc = "threw" => Val(err).kind # "storage"

\* C15: once cancellation has fired while the catch-up request is pending, the
\* wait is over: no response of that request is taken any more.
C15_ProbeObservesCancel ==
    [][(pc = "probing" /\ aborted) => pc' # "parsing"]_vars

\* C16: a failure that comes from the update handler, and that the transport's
\* own classifier does not call recoverable, is never retried with backoff,
\* whatever its message text.
C16_HandlerErrorNotRetried ==
    (caught # Null /\ Val(caught).origin = "handler" /\ ~Val(caught).recoverable)
        => pc # "backoff"


\* C17: the two modes exclude each other within an invocation. In webhook
\* mode no poll worker is started and nothing is retried, cancellation reaches
\* the listener while it is awaited, and the listener's end, clean or with an
\* error, ends the invocation; in poll mode the listener is never started.
C17_ModesExclusive ==
    /\ (pc = "webhook") <=> (webhook \in {"listening", "stopping"})
    /\ (pc = "webhook" /\ aborted) => webhook = "stopping"
    /\ webhook # "none" =>
         (useWebhook /\ runners = <<>> /\ restartAttempts = 0 /\ caught = Null
          /\ pc \notin {"running", "backoff"})
    /\ webhook = "ended" => (pc = "done" /\ err = Null)
    /\ webhook = "failed" => (pc = "threw" /\ Val(err).kind = "webhook")
    /\ (runners # <<>> \/ pc \in {"running", "backoff"}) =>
         (~useWebhook /\ webhook = "none")

\* A listener that was cancelled while awaited and then ended the invocation.
C17_Witness == webhook = "ended" /\ aborted /\ pc = "done" /\ bot # Null


\* C18: when the worker's task resolves without an error and cancellation has
\* not been requested, the supervisor returns: the invocation is done with no
\* error, no further worker is started and no backoff is entered.
C18_CleanStopReturns ==
    [][(/\ pc = "running"
        /\ ~aborted
        /\ caught' = Null
        /\ Len(runners') >= Len(runners)
        /\ runners'[Len(runners)] = "settled")
       => (/\ pc' = "done"
           /\ err' = Null
           /\ runners' = Settle(runners)
           /\ restartAttempts' = restartAttempts
           /\ backoffAttempt' = 0)]_vars

\* A poll session that ended because its second worker stopped cleanly.
C18_Witness ==
    /\ pc = "done" /\ ~aborted /\ ~useWebhook /\ err = Null /\ bot # Null
    /\ runners = <<"settled", "settled">>


\* Attempt 1 without jitter is initialMs, and no attempt's delay leaves 0..maxMs.
DelaysClamped ==
    /\ computeBackoff(1, 0) = InitialMs
    /\ \A n \in 1..MaxAttempt : \A j \in Jitters :
         computeBackoff(n, j) >= 0 /\ computeBackoff(n, j) <= MaxMs

\* C19: the k-th recoverable failure of a session sleeps a delay computed from
\* attempt number k, counted from 1, where attempt 1 without jitter is
\* initialMs; and the delay of every attempt number up to MaxAttempt, with
\* any jitter, is at most maxMs.
C19_BackoffAttemptAndClamp ==
    /\ pc = "backoff" =>
         /\ backoffAttempt = Len(runners)
         /\ backoffAttempt >= 1
         /\ \A d \in delayMs : d >= 0 /\ d <= MaxMs
    /\ pc # "backoff" => backoffAttempt = 0
    /\ DelaysClamped

\* The sleep after the second failure: 2000 * 1.8 with each jitter.
C19_Witness ==
    /\ pc = "backoff" /\ backoffAttempt = 2 /\ Len(runners) = 2
    /\ delayMs = {2700, 3600, 4500}


====
